---- MODULE Spec2Model ----
(***************************************************************************)
(* Model of AdvancedRAGEngine (main.py) and of the Streamlit session that  *)
(* drives it (app.py).                                                     *)
(*                                                                         *)
(* A Python str is modelled as a sequence of atoms.  An atom is either a   *)
(* whole word (a maximal run of non-whitespace characters, e.g. "cat" or   *)
(* "sat.") or one whitespace character (" " or "\n").  Every text the      *)
(* model builds keeps two words apart by at least one whitespace atom, so  *)
(* str.split() is the sequence of the non-whitespace atoms.                *)
(***************************************************************************)
EXTENDS Integers, Sequences, FiniteSets, TLC

VARIABLES eng, last, session, env, kb

vars == <<eng, last, session, env, kb>>

\* ------------------------------------------------------------------ bounds
MaxWords == 2
MaxTopK == 2
MaxChunkWords == 5
MaxChunkSize == 3
MaxPages == 1
MaxTurns == 1

\* ----------------------------------------------------------------- strings
None == "None"

SP == " "
NL == "\n"

IsSpace(a) == a \in {SP, NL}

NotSpace(a) == ~IsSpace(a)

Max(a, b) == IF a >= b THEN a ELSE b

Min(a, b) == IF a <= b THEN a ELSE b

\* str.split(): the words of a text, whitespace runs dropped
split(s) == SelectSeq(s, NotSpace)

RECURSIVE lstrip(_)
lstrip(s) == IF s # <<>> /\ IsSpace(Head(s)) THEN lstrip(Tail(s)) ELSE s

RECURSIVE rstrip(_)
rstrip(s) ==
    IF s # <<>> /\ IsSpace(s[Len(s)]) THEN rstrip(SubSeq(s, 1, Len(s) - 1)) ELSE s

\* str.strip()
strip(s) == rstrip(lstrip(s))

\* sep.join(parts): parts is a sequence of strings
RECURSIVE join(_, _)
join(sep, parts) ==
    IF parts = <<>> THEN <<>>
    ELSE IF Len(parts) = 1 THEN parts[1]
    ELSE parts[1] \o sep \o join(sep, Tail(parts))

\* words[start:end] of Python, 0-based, end clipped to the length
Slice(words, start, end) == SubSeq(words, start + 1, Min(end, Len(words)))

\* the strings of a list of words, one string per word
AsStrings(words) == [i \in 1..Len(words) |-> <<words[i]>>]

\* ----------------------------------------------------------------- chunker
\* the body of the for loop of _chunk_text, from `start` on
RECURSIVE ChunkLoop(_, _, _, _, _)
ChunkLoop(words, size, step, start, chunks) ==
    IF start >= Len(words) THEN chunks
    ELSE LET end == start + size
             chunk == strip(join(<<SP>>, AsStrings(Slice(words, start, end))))
             out == IF chunk # <<>> THEN Append(chunks, chunk) ELSE chunks
         IN IF end >= Len(words) THEN out
            ELSE ChunkLoop(words, size, step, start + step, out)

step_ignoring_overlap(self) == Max(1, self.chunk_size_words)

\* step of _chunk_text
step(self) == Max(1, self.chunk_size_words - self.chunk_overlap_words)

\* AdvancedRAGEngine._chunk_text
chunk_text(self, text) ==
    LET words == split(text)
    IN IF words = <<>> THEN <<>>
       ELSE ChunkLoop(words, self.chunk_size_words, step(self), 0, <<>>)

\* -------------------------------------------------------------- vectorizer
\* TfidfVectorizer's analyzer on one word: lower-cased, split on the token
\* pattern (?u)\b\w\w+\b (punctuation dropped, one-letter tokens dropped)
Tokens(word) ==
    CASE word = "The" -> <<"the">>
      [] word = "cat" -> <<"cat">>
      [] word = "dog" -> <<"dog">>
      [] word = "sat." -> <<"sat">>
      [] word = "ran." -> <<"ran">>
      [] OTHER -> <<>>

\* the members of stop_words="english" among the tokens above
StopWords == {"the"}

\* the tokens above in the order sklearn sorts a vocabulary
Alphabetical == <<"cat", "dog", "ran", "sat", "the">>

Range(f) == {f[i] : i \in DOMAIN f}

RECURSIVE analyze_words(_)
analyze_words(words) ==
    IF words = <<>> THEN <<>>
    ELSE LET toks == Tokens(Head(words))
             kept == IF toks # <<>> /\ toks[1] \in StopWords THEN <<>> ELSE toks
         IN kept \o analyze_words(Tail(words))

\* build_analyzer() of the vectorizer applied to one document
analyze(doc) == analyze_words(split(doc))

RECURSIVE Keep(_, _)
Keep(seq, S) ==
    IF seq = <<>> THEN <<>>
    ELSE (IF Head(seq) \in S THEN <<Head(seq)>> ELSE <<>>) \o Keep(Tail(seq), S)

Count(toks, t) == Cardinality({i \in 1..Len(toks) : toks[i] = t})

RECURSIVE Dot(_, _)
Dot(u, v) == IF u = <<>> THEN 0 ELSE u[1] * v[1] + Dot(Tail(u), Tail(v))

\* 10 * ln(k), rounded, for k = 1..12
LnTimes10 == <<0, 7, 11, 14, 16, 18, 19, 21, 22, 23, 24, 25>>

\* smooth idf, ln((1 + n) / (1 + df)) + 1, in tenths
Idf(n, df) == 10 + LnTimes10[1 + n] - LnTimes10[1 + df]

\* One row of the tf-idf matrix with norm="l2": the vector v / sqrt(n2),
\* the zero vector when n2 = 0.  Kept exact as the pair (v, n2).
Row(v) == [v |-> v, n2 |-> Dot(v, v)]

TfidfRow(toks, vocabulary, idf) ==
    Row([j \in 1..Len(vocabulary) |-> Count(toks, vocabulary[j]) * idf[j]])

\* TfidfVectorizer(stop_words="english"): nothing fitted yet
\* (vocabulary_ and the idf weights are absent: a fitted one is never empty)
NewVectorizer == [vocabulary |-> <<>>, idf |-> <<>>]

\* the number of documents a term occurs in
DocumentFrequency(toks, t) == Cardinality({i \in 1..Len(toks) : Count(toks[i], t) > 0})

FitRows(toks, vocabulary, idf) ==
    [raised |-> None,
     vectorizer |-> [vocabulary |-> vocabulary, idf |-> idf],
     X |-> [i \in 1..Len(toks) |-> TfidfRow(toks[i], vocabulary, idf)]]

FitVocabulary(vec, toks, vocabulary, reset) ==
    IF vocabulary = <<>>
    THEN [raised |-> "ValueError",
          vectorizer |-> [vec EXCEPT !.idf = IF reset THEN <<>> ELSE @],
          X |-> <<>>]
    ELSE FitRows(toks, vocabulary,
                 [j \in 1..Len(vocabulary) |->
                    Idf(Len(toks), DocumentFrequency(toks, vocabulary[j]))])

FitTokens(vec, toks, reset) ==
    FitVocabulary(vec, toks,
                  Keep(Alphabetical, UNION {Range(toks[i]) : i \in 1..Len(toks)}), reset)

\* TfidfVectorizer.fit_transform.  An empty vocabulary raises ValueError
\* before vocabulary_ is assigned; whether the idf weights of the earlier fit
\* survive that depends on the installed scikit-learn (reset: the inner
\* TfidfTransformer is re-created at the start of every fit).
fit_transform(vec, docs, reset) ==
    FitTokens(vec, [i \in 1..Len(docs) |-> analyze(docs[i])], reset)

\* TfidfVectorizer.transform on one document
transform(vec, doc) ==
    IF vec.vocabulary = <<>> \/ vec.idf = <<>>
    THEN [raised |-> "NotFittedError", X |-> <<>>]
    ELSE [raised |-> None, X |-> <<TfidfRow(analyze(doc), vec.vocabulary, vec.idf)>>]

\* ------------------------------------------------------------------- index
\* a / b < c / d for a, c >= 0 and b, d > 0, without forming a * d or b * c
RECURSIVE FracLess(_, _, _, _)
FracLess(a, b, c, d) ==
    IF a \div b # c \div d THEN a \div b < c \div d
    ELSE IF c % d = 0 THEN FALSE
    ELSE IF a % b = 0 THEN TRUE
    ELSE FracLess(d, c % d, b, a % b)

NonZero(row) == IF row.n2 > 0 THEN 1 ELSE 0

\* Squared L2 distance between two normalised rows, kept exact: the value
\* c - 2 * sqrt(n / m), where c counts the non-zero rows of the two and the
\* square root is the cosine (0 when m = 0, so c < 2 implies a zero cosine).
L2sqr(q, r) ==
    [c |-> NonZero(q) + NonZero(r), n |-> Dot(q.v, r.v) * Dot(q.v, r.v), m |-> q.n2 * r.n2]

\* d1 < d2 on those distances
DistLess(d1, d2) ==
    CASE d1.c - d2.c = 0 ->
            IF d1.m = 0 THEN FALSE
            ELSE IF d2.m = 0 THEN d1.n > 0
            ELSE FracLess(d2.n, d2.m, d1.n, d1.m)
      [] d1.c - d2.c = 1 -> d1.c = 2 /\ 4 * d1.n > d1.m
      [] d1.c - d2.c = 2 -> FALSE
      [] d1.c - d2.c = -1 -> d2.c < 2 \/ 4 * d2.n < d2.m
      [] OTHER -> TRUE

\* the distance FAISS reports where it has no neighbour left
NoDistance == [c |-> -1, n |-> 0, m |-> 0]

\* faiss.IndexFlatL2(dim)
IndexFlatL2(dim) == [d |-> dim, xb |-> <<>>]

\* IndexFlatL2.add
index_add(index, X) == [index EXCEPT !.xb = @ \o X]

\* row j comes before row i: it is nearer, or as near and stored earlier
Before(dist, j, i) ==
    DistLess(dist[j], dist[i]) \/ (~DistLess(dist[i], dist[j]) /\ j < i)

Rank(dist, i) == Cardinality({j \in 1..Len(dist) : j # i /\ Before(dist, j, i)})

Nearest(dist, p) == CHOOSE i \in 1..Len(dist) : Rank(dist, i) = p - 1

Ranked(dist, k) ==
    [distances |-> [p \in 1..k |-> IF p <= Len(dist) THEN dist[Nearest(dist, p)]
                                   ELSE NoDistance],
     indices |-> [p \in 1..k |-> IF p <= Len(dist) THEN Nearest(dist, p) - 1 ELSE -1]]

\* IndexFlatL2.search for one query row: the k nearest stored rows by
\* ascending distance, equal distances by ascending position; where fewer
\* than k rows are stored the labels are padded with -1.  Labels are 0-based.
index_search(index, q, k) ==
    Ranked([i \in 1..Len(index.xb) |-> L2sqr(q, index.xb[i])], k)

\* ------------------------------------------------------------------ engine
\* An optional attribute holds <<>> for Python's None and <<x>> for x.
Nil == <<>>

Some(x) == <<x>>

Raise(self, kind) == [self |-> self, raised |-> kind, ret |-> None]

Return(self, value) == [self |-> self, raised |-> None, ret |-> value]

Attributes(key, size, overlap) ==
    [model_name |-> "llama-3.1-8b-instant",
     chunk_size_words |-> size,
     chunk_overlap_words |-> overlap,
     groq_api_key |-> key,
     vectorizer |-> NewVectorizer,
     index |-> Nil,
     chunks |-> <<>>,
     embeddings |-> Nil,
     source_name |-> None]

Keyed(key, size, overlap) ==
    IF key = "" THEN Raise(Attributes(key, size, overlap), "MissingCredential")
    ELSE Return(Attributes(key, size, overlap), None)

\* AdvancedRAGEngine.__init__; env_key is os.getenv("GROQ_API_KEY")
NewEngine(groq_api_key, env_key, size, overlap) ==
    Keyed(IF groq_api_key # "" THEN groq_api_key ELSE env_key, size, overlap)

\* _build_index once fit_transform has come to f
Indexed(self, f) ==
    IF f.raised # None
    THEN Raise([self EXCEPT !.vectorizer = f.vectorizer], "EmptyEmbeddings")
    ELSE IF Len(f.X) * Len(f.vectorizer.vocabulary) = 0
    THEN Raise([self EXCEPT !.vectorizer = f.vectorizer], "EmptyEmbeddings")
    ELSE Return([self EXCEPT
                   !.vectorizer = f.vectorizer,
                   !.index = Some(index_add(IndexFlatL2(Len(f.vectorizer.vocabulary)), f.X)),
                   !.embeddings = Some(f.X)],
                None)

\* AdvancedRAGEngine._build_index
build_index(self, chunks, reset) ==
    Indexed(self, fit_transform(self.vectorizer, chunks, reset))

\* AdvancedRAGEngine._extract_text_from_pdf; a page is the text extract_text()
\* gives for it, <<>> where it gives None or ""
extract_text_from_pdf(pages) ==
    join(<<NL>>, SelectSeq(pages, LAMBDA page_text : page_text # <<>>))

\* str.lower() on a path suffix
Lower(suffix) ==
    CASE suffix = ".TXT" -> ".txt"
      [] suffix = ".PDF" -> ".pdf"
      [] OTHER -> suffix

Counted(built) ==
    IF built.raised # None THEN built ELSE Return(built.self, Len(built.self.chunks))

Rechunked(self, chunks, reset) ==
    Counted(build_index([self EXCEPT !.chunks = chunks], chunks, reset))

\* the tail of both ingest methods: replace the name and the chunks, then index
Replace(self, name, text, reset) ==
    Rechunked([self EXCEPT !.source_name = name], chunk_text(self, text), reset)

Extracted(self, file, text, reset) ==
    IF text = <<>> \/ strip(text) = <<>> THEN Raise(self, "EmptyDocument")
    ELSE Replace(self, file.name, text, reset)

\* AdvancedRAGEngine.ingest_file; a file is [exists, name, suffix, readable,
\* text (a .txt file's content), pages (a .pdf file's pages)]
ingest_file(self, file, reset) ==
    IF ~file.exists THEN Raise(self, "FileNotFound")
    ELSE IF Lower(file.suffix) \notin {".txt", ".pdf"} THEN Raise(self, "UnsupportedFormat")
    ELSE IF ~file.readable THEN Raise(self, "ExtractionError")
    ELSE Extracted(self, file,
                   IF Lower(file.suffix) = ".txt" THEN file.text
                   ELSE extract_text_from_pdf(file.pages),
                   reset)

ingest_text_named_first(self, text, source_name, reset) ==
    IF text = <<>> \/ strip(text) = <<>>
    THEN Raise([self EXCEPT !.source_name = source_name], "EmptyDocument")
    ELSE Replace(self, source_name, text, reset)

\* AdvancedRAGEngine.ingest_text
ingest_text(self, text, source_name, reset) ==
    IF text = <<>> \/ strip(text) = <<>> THEN Raise(self, "EmptyDocument")
    ELSE Replace(self, source_name, text, reset)

NoChunks(self) == self.chunks = <<>>

\* the guard of retrieve
NoKnowledgeBase(self) == self.index = Nil \/ self.chunks = <<>>

Refitted(self, f) == [vectorizer |-> f.vectorizer, raised |-> f.raised, X |-> f.X]

query_vector_refit(self, query) ==
    Refitted(self, fit_transform(self.vectorizer, <<query>>, FALSE))

Transformed(self, t) == [vectorizer |-> self.vectorizer, raised |-> t.raised, X |-> t.X]

\* q_vec of retrieve: the query in the fitted space, the vectorizer as it is
query_vector(self, query) == Transformed(self, transform(self.vectorizer, query))

RECURSIVE MapResultsUpperOnly(_, _, _)
MapResultsUpperOnly(chunks, distances, indices) ==
    IF indices = <<>> THEN <<>>
    ELSE IF Head(indices) >= Len(chunks)
    THEN MapResultsUpperOnly(chunks, Tail(distances), Tail(indices))
    ELSE <<[chunk |-> chunks[IF Head(indices) < 0 THEN Len(chunks) + Head(indices) + 1
                            ELSE Head(indices) + 1],
            score |-> Head(distances)]>>
         \o MapResultsUpperOnly(chunks, Tail(distances), Tail(indices))

\* the loop of retrieve over zip(distances[0], indices[0])
RECURSIVE MapResults(_, _, _)
MapResults(chunks, distances, indices) ==
    IF indices = <<>> THEN <<>>
    ELSE IF Head(indices) < 0 \/ Head(indices) >= Len(chunks)
    THEN MapResults(chunks, Tail(distances), Tail(indices))
    ELSE <<[chunk |-> chunks[Head(indices) + 1], score |-> Head(distances)]>>
         \o MapResults(chunks, Tail(distances), Tail(indices))

Searched(self, found) ==
    Return(self, MapResults(self.chunks, found.distances, found.indices))

\* retrieve from its second statement on (FAISS asserts the query has the
\* index's width)
Projected(self, qv, top_k) ==
    IF qv.raised # None THEN Raise([self EXCEPT !.vectorizer = qv.vectorizer], qv.raised)
    ELSE IF Len(qv.X[1].v) # self.index[1].d
    THEN Raise([self EXCEPT !.vectorizer = qv.vectorizer], "AssertionError")
    ELSE Searched([self EXCEPT !.vectorizer = qv.vectorizer],
                  index_search(self.index[1], qv.X[1], top_k))

\* AdvancedRAGEngine.retrieve
retrieve(self, query, top_k) ==
    IF NoKnowledgeBase(self) THEN Raise(self, "NoKnowledgeBase")
    ELSE Projected(self, query_vector(self, query), top_k)

\* the fixed answer of answer() when nothing was retrieved
NoContextAnswer == <<"I could not retrieve relevant context.">>

\* the instruction that opens every prompt
Instructions ==
    <<"You are a helpful assistant. Answer using only the provided context. If the context is insufficient, say exactly: 'I don't know based on the provided context.'">>

NeverNoDocs(docs) == FALSE

\* `not docs` in answer
NoDocs(docs) == docs = <<>>

build_context_reversed(docs) ==
    join(<<NL, NL>>, [i \in 1..Len(docs) |-> docs[Len(docs) + 1 - i].chunk])

\* the context block of answer
build_context(docs) == join(<<NL, NL>>, [i \in 1..Len(docs) |-> docs[i].chunk])

\* the prompt of answer
build_prompt(context, query) ==
    Instructions \o <<NL, NL, "Context:", NL>> \o context
    \o <<NL, NL, "Question:", SP>> \o query \o <<NL, NL, "Answer:">>

Outcome(self, raised, ret, requests) ==
    [self |-> self, raised |-> raised, ret |-> ret, requests |-> requests]

\* the one request of answer
Request(self, docs, query, temperature) ==
    [model |-> self.model_name,
     messages |-> <<[role |-> "user", content |-> build_prompt(build_context(docs), query)]>>,
     temperature |-> temperature]

\* client.chat.completions.create: it fails, or it gives a completion
Generated(self, docs, request, reply) ==
    IF ~reply.ok THEN Outcome(self, "GenerationFailure", None, <<request>>)
    ELSE Outcome(self, None, <<strip(reply.content), docs>>, <<request>>)

\* answer once retrieve has come to r
Retrieved(r, query, temperature, reply) ==
    IF r.raised # None THEN Outcome(r.self, r.raised, None, <<>>)
    ELSE IF NoDocs(r.ret) THEN Outcome(r.self, None, <<NoContextAnswer, <<>>>>, <<>>)
    ELSE Generated(r.self, r.ret, Request(r.self, r.ret, query, temperature), reply)

\* AdvancedRAGEngine.answer
answer(self, query, top_k, temperature, reply) ==
    Retrieved(retrieve(self, query, top_k), query, temperature, reply)

\* ------------------------------------------------------------------ inputs
Words == {"The", "cat"}

WordSeqs(n) == UNION {[1..k -> Words] : k \in 1..n}

\* the words, one space between two
Text(words) == join(<<SP>>, AsStrings(words))

\* empty and blank texts, every text of up to MaxWords words, three texts
\* with a second content word, and one with whitespace around it
Texts ==
    {<<>>, <<SP>>, <<NL, SP>>}
    \cup {Text(ws) : ws \in WordSeqs(MaxWords)}
    \cup {<<"dog">>, <<"dog", SP, "cat">>, <<"cat", SP, "The", NL, "dog">>,
          <<SP, "cat", NL>>}

File(exists, name, suffix, readable, text, pages) ==
    [exists |-> exists, name |-> name, suffix |-> suffix, readable |-> readable,
     text |-> text, pages |-> pages]

PdfPages == UNION {[1..k -> {<<>>, <<"cat">>}] : k \in 0..MaxPages}

Uploads ==
    {File(TRUE, "doc.txt", ".txt", TRUE, t, <<>>) : t \in Texts}
    \cup {File(TRUE, "doc.pdf", ".pdf", TRUE, <<>>, ps) : ps \in PdfPages}
    \cup {File(TRUE, "DOC.TXT", ".TXT", TRUE, <<"dog">>, <<>>),
          File(TRUE, "doc.txt", ".txt", FALSE, <<>>, <<>>),
          File(TRUE, "doc.pdf", ".pdf", FALSE, <<>>, <<>>)}

Files ==
    Uploads
    \cup {File(FALSE, "gone.txt", ".txt", TRUE, <<>>, <<>>),
          File(FALSE, "gone.docx", ".docx", TRUE, <<>>, <<>>),
          File(TRUE, "doc.docx", ".docx", TRUE, <<"cat">>, <<>>)}

Queries == {<<"cat">>, <<"dog">>, <<"The">>}

Replies == {[ok |-> FALSE, content |-> <<>>],
            [ok |-> TRUE, content |-> <<SP, "Yes.", NL>>]}

EngineConfigs == {<<1, 0>>, <<2, 1>>}

NoSession == [engine |-> Nil, messages |-> <<>>, kb_loaded |-> FALSE]

Call(op, args, r, requests) ==
    [op |-> op, args |-> args, raised |-> r.raised, ret |-> r.ret, requests |-> requests]

\* ---------------------------------------------- the engine under any caller
\* kb records what the ingests so far came to: "never" while none has
\* succeeded, "valid" after one that did, "invalid" once a later one failed
\* after it had replaced the chunks
AfterIngest(status, raised) ==
    IF raised = None THEN "valid"
    ELSE IF raised = "EmptyEmbeddings" /\ status # "never" THEN "invalid"
    ELSE status

Idle == [op |-> "init", args |-> <<>>, raised |-> None, ret |-> None, requests |-> <<>>]

Init ==
    /\ \E c \in EngineConfigs : eng = NewEngine("gsk", "", c[1], c[2]).self
    /\ last = Idle
    /\ session = NoSession
    /\ env \in [tfidf_reset_on_fit : BOOLEAN]
    /\ kb = "never"

Ingested(op, args, r) ==
    /\ eng' = r.self
    /\ last' = Call(op, args, r, <<>>)
    /\ kb' = AfterIngest(kb, r.raised)
    /\ UNCHANGED <<session, env>>

Queried(op, args, r, requests) ==
    /\ eng' = r.self
    /\ last' = Call(op, args, r, requests)
    /\ UNCHANGED <<session, env, kb>>

Responded(args, r) == Queried("answer", args, r, r.requests)

IngestFile(file) ==
    Ingested("ingest_file", <<file>>, ingest_file(eng, file, env.tfidf_reset_on_fit))

IngestText(text, source_name) ==
    Ingested("ingest_text", <<text, source_name>>,
             ingest_text(eng, text, source_name, env.tfidf_reset_on_fit))

Retrieve(query, top_k) ==
    Queried("retrieve", <<query, top_k>>, retrieve(eng, query, top_k), <<>>)

Answer(query, top_k, reply) ==
    Responded(<<query, top_k, reply>>, answer(eng, query, top_k, 0, reply))

Next ==
    \/ \E file \in Files : IngestFile(file)
    \/ \E text \in Texts : IngestText(text, "input_text")
    \/ \E query \in Queries, top_k \in 1..MaxTopK : Retrieve(query, top_k)
    \/ \E query \in Queries, top_k \in 1..MaxTopK, reply \in Replies :
          Answer(query, top_k, reply)

Spec == Init /\ [][Next]_vars

\* ------------------------------------------------------- the chunker alone
ChunkWords == {"The", "cat"}

ExampleWords == <<"The", "cat", "sat.", "The", "dog", "ran.">>

ChunkTexts ==
    {<<>>, <<SP, NL>>, Text(ExampleWords)}
    \cup {Text(ws) : ws \in UNION {[1..k -> ChunkWords] : k \in 1..MaxChunkWords}}

InitChunk ==
    /\ \E size \in 1..MaxChunkSize, overlap \in 0..MaxChunkSize :
          eng = NewEngine("gsk", "", size, overlap).self
    /\ last = Idle
    /\ session = NoSession
    /\ env = [tfidf_reset_on_fit |-> TRUE]
    /\ kb = "never"

ChunkText(text) ==
    /\ last' = Call("_chunk_text", <<text>>, Return(eng, chunk_text(eng, text)), <<>>)
    /\ UNCHANGED <<eng, session, env, kb>>

NextChunk == \E text \in ChunkTexts : ChunkText(text)

SpecChunk == InitChunk /\ [][NextChunk]_vars

\* ------------------------------------------------------ the Streamlit page
\* the name of the temporary file the upload is copied to
TmpName(suffix) ==
    CASE suffix = ".txt" -> "tmp.txt"
      [] suffix = ".pdf" -> "tmp.pdf"
      [] suffix = ".TXT" -> "tmp.TXT"
      [] OTHER -> "tmp"

\* the temporary file: the upload's bytes under the upload's suffix
TmpFile(uploaded) == [uploaded EXCEPT !.name = TmpName(uploaded.suffix)]

Message(role, content, context) == [role |-> role, content |-> content, context |-> context]

Shown(state, error) == [session |-> state, error |-> error]

BuiltStoringFirst(state, r) ==
    IF r.raised # None
    THEN Shown([engine |-> Some(r.self), kb_loaded |-> TRUE, messages |-> state.messages],
               r.raised)
    ELSE Shown([engine |-> Some(r.self), kb_loaded |-> TRUE, messages |-> <<>>], None)

\* the try block of the button once ingest_file has come to r
Built(state, r) ==
    IF r.raised # None THEN Shown(state, r.raised)
    ELSE Shown([engine |-> Some(r.self), kb_loaded |-> TRUE, messages |-> <<>>], None)

Constructed(state, made, tmp, reset) ==
    IF made.raised # None THEN Shown(state, made.raised)
    ELSE Built(state, ingest_file(made.self, tmp, reset))

\* the "Build Index" button
on_build(state, api_key, uploaded_file, chunk_size, chunk_overlap, reset) ==
    IF api_key = "" THEN Shown(state, "Please provide your Groq API key.")
    ELSE IF uploaded_file = Nil THEN Shown(state, "Please upload a TXT or PDF file.")
    ELSE Constructed(state, NewEngine(api_key, "", chunk_size, chunk_overlap),
                     TmpFile(uploaded_file[1]), reset)

BuildFirst == <<"Please build the index first from the setup panel.">>

Answered(held, r) ==
    IF r.raised # None
    THEN Shown([held EXCEPT !.messages =
                   Append(@, Message("assistant",
                                     <<"Error while answering:", SP, r.raised>>, Nil))],
               r.raised)
    ELSE Shown([held EXCEPT !.messages =
                   Append(@, Message("assistant", r.ret[1], Some(r.ret[2])))],
               None)

HoldAnswer(asked, r) == Answered([asked EXCEPT !.engine = Some(r.self)], r)

Ask(asked, question, top_k, reply) ==
    IF ~asked.kb_loaded \/ asked.engine = Nil
    THEN Shown([asked EXCEPT !.messages = Append(@, Message("assistant", BuildFirst, Nil))],
               None)
    ELSE HoldAnswer(asked, answer(asked.engine[1], question, top_k, 0, reply))

\* a question typed into the chat input
on_question(state, question, top_k, reply) ==
    Ask([state EXCEPT !.messages = Append(@, Message("user", question, Nil))],
        question, top_k, reply)

\* what the page's widgets offer: a few uploads, three slider settings
PageUploads ==
    {f \in Uploads : f.text \in {<<>>, <<SP>>, <<"The">>, <<"cat">>, <<"dog", SP, "cat">>}}

PageSettings == {<<80, 0>>, <<180, 40>>, <<80, 100>>}

InitPage ==
    /\ eng = NewEngine("gsk", "", 180, 40).self
    /\ last = Idle
    /\ session = NoSession
    /\ env \in [tfidf_reset_on_fit : BOOLEAN]
    /\ kb = "never"

Clicked(op, args, r) ==
    /\ session' = r.session
    /\ last' = [op |-> op, args |-> args, raised |-> r.error, ret |-> None,
                requests |-> <<>>]
    /\ UNCHANGED <<eng, env, kb>>

BuildIndex(api_key, uploaded_file, chunk_size, chunk_overlap) ==
    Clicked("build", <<api_key, uploaded_file>>,
            on_build(session, api_key, uploaded_file, chunk_size, chunk_overlap,
                     env.tfidf_reset_on_fit))

Chat(question, top_k, reply) ==
    /\ Len(session.messages) < 2 * MaxTurns
    /\ Clicked("chat", <<question, top_k, reply>>,
               on_question(session, question, top_k, reply))

NextPage ==
    \/ \E api_key \in {"", "gsk"}, uploaded_file \in {Nil} \cup {Some(f) : f \in PageUploads},
          c \in PageSettings : BuildIndex(api_key, uploaded_file, c[1], c[2])
    \/ \E question \in Queries, top_k \in 1..MaxTopK, reply \in Replies :
          Chat(question, top_k, reply)

SpecPage == InitPage /\ [][NextPage]_vars

\* ================================================================== claims
\* what fitting a new vectorizer on the held chunks and indexing the rows gives
MatchesFit(e, f) ==
    /\ f.raised = None
    /\ Len(e.index[1].xb) = Len(e.chunks)
    /\ e.index[1].xb = f.X
    /\ e.embeddings = Some(f.X)
    /\ e.vectorizer = f.vectorizer

Consistent(e) ==
    e.index # Nil /\ MatchesFit(e, fit_transform(NewVectorizer, e.chunks, FALSE))

IsIngest(call) == call.op \in {"ingest_file", "ingest_text"}

IsQuery(call) == call.op \in {"retrieve", "answer"}

\* C1: whenever the engine holds an index, the index has one row per held
\* chunk, and index, embeddings and fitted vector space are the ones built
\* from the held chunk list.
C1_IndexBuiltFromHeldChunks == eng.index # Nil => Consistent(eng)

\* C2: after an ingest that failed in index building on an engine that held
\* a knowledge base, every retrieve and answer raises NoKnowledgeBase.
C2_InvalidRaisesNoKnowledgeBase ==
    (IsQuery(last) /\ kb = "invalid") => last.raised = "NoKnowledgeBase"

\* the failure the claim expects of a file, None where it expects none
NoWords(file) ==
    IF file.suffix \in {".txt", ".TXT"} THEN split(file.text) = <<>>
    ELSE \A i \in 1..Len(file.pages) : split(file.pages[i]) = <<>>

ExpectedFailure(file) ==
    IF ~file.exists THEN "FileNotFound"
    ELSE IF file.suffix \notin {".txt", ".TXT", ".pdf", ".PDF"} THEN "UnsupportedFormat"
    ELSE IF file.readable /\ NoWords(file) THEN "EmptyDocument"
    ELSE None

EarlyFailures == {"FileNotFound", "UnsupportedFormat", "EmptyDocument"}

\* C3: an ingest of a missing path, of an unsupported suffix or of a text
\* without a word raises FileNotFound, UnsupportedFormat or EmptyDocument,
\* and an ingest that raises one of these leaves every attribute of the
\* engine as it was.
C3_EarlyFailureLeavesEngine ==
    [][/\ (last'.op = "ingest_file" /\ ExpectedFailure(last'.args[1]) # None)
            => (last'.raised = ExpectedFailure(last'.args[1]) /\ eng' = eng)
       /\ (last'.op = "ingest_text" /\ split(last'.args[1]) = <<>>)
            => (last'.raised = "EmptyDocument" /\ eng' = eng)
       /\ (IsIngest(last') /\ last'.raised \in EarlyFailures) => eng' = eng]_vars

C3_Witness ==
    /\ kb = "valid"
    /\ last.op = "ingest_file"
    /\ last.raised = "EmptyDocument"
    /\ eng.index # Nil
    /\ eng.source_name # last.args[1].name

\* the words the chunks from the i-th on add, each without its first O words
RECURSIVE AddedWords(_, _, _)
AddedWords(chunks, i, overlap) ==
    IF i > Len(chunks) THEN <<>>
    ELSE SubSeq(split(chunks[i]), overlap + 1, Len(split(chunks[i])))
         \o AddedWords(chunks, i + 1, overlap)

Chunked(words, size, overlap, chunks) ==
    /\ chunks # <<>>
    /\ \A i \in 1..Len(chunks) :
          /\ i > 1 => Len(split(chunks[i])) > overlap
          /\ split(chunks[i]) = SubSeq(words, (i - 1) * (size - overlap) + 1,
                                       Min((i - 1) * (size - overlap) + size, Len(words)))
    /\ split(chunks[1]) \o AddedWords(chunks, 2, overlap) = words
    /\ chunks[Len(chunks)][Len(chunks[Len(chunks)])] = words[Len(words)]

ExampleChunks ==
    <<<<"The", SP, "cat", SP, "sat.">>, <<"sat.", SP, "The", SP, "dog">>,
      <<"dog", SP, "ran.">>>>

\* C4: for N >= 1 words and 0 <= O < S the chunks, the first whole and each
\* later one without its first O words (it has more than O), give back the
\* words; chunk i starts (i - 1) * (S - O) words in; the last chunk ends
\* with the last word; and the six words of the example with S = 3, O = 1
\* give the three chunks.
C4_ChunksRebuildWords ==
    (/\ last.op = "_chunk_text"
     /\ eng.chunk_overlap_words < eng.chunk_size_words
     /\ split(last.args[1]) # <<>>)
    => /\ Chunked(split(last.args[1]), eng.chunk_size_words, eng.chunk_overlap_words,
                  last.ret)
       /\ (/\ last.args[1] = Text(ExampleWords)
           /\ eng.chunk_size_words = 3
           /\ eng.chunk_overlap_words = 1) => last.ret = ExampleChunks

C4_Witness ==
    /\ last.op = "_chunk_text"
    /\ last.args[1] = Text(ExampleWords)
    /\ eng.chunk_size_words = 3
    /\ eng.chunk_overlap_words = 1
    /\ last.ret = ExampleChunks

\* C5: while no ingest has succeeded, every retrieve and every answer raises
\* NoKnowledgeBase, and answer sends no request to the generation service.
C5_NeverIngestedRaises ==
    (IsQuery(last) /\ kb = "never")
    => (last.raised = "NoKnowledgeBase" /\ last.requests = <<>>)

C5_Witness ==
    /\ kb = "never"
    /\ last.op = "answer"
    /\ eng.chunks # <<>>
    /\ last.raised = "NoKnowledgeBase"

Occurrences(texts, t) == Cardinality({i \in 1..Len(texts) : texts[i] = t})

FromChunks(results, chunks) ==
    /\ Len(results) <= Len(chunks)
    /\ \A i \in 1..Len(results) :
          /\ results[i].chunk \in Range(chunks)
          /\ Occurrences([j \in 1..Len(results) |-> results[j].chunk], results[i].chunk)
             <= Occurrences(chunks, results[i].chunk)

\* C6: on a valid knowledge base of C chunks retrieve returns for every
\* top_k >= 1, and whenever retrieve returns it returns at most
\* min(top_k, C) results, each the text of a held chunk, no chunk more often
\* than it is held.
C6_RetrieveWithinChunks ==
    last.op = "retrieve"
    => /\ kb = "valid" => last.raised = None
       /\ last.raised = None
            => (Len(last.ret) <= last.args[2] /\ FromChunks(last.ret, eng.chunks))

C6_Witness ==
    /\ last.op = "retrieve"
    /\ kb = "valid"
    /\ last.raised = None
    /\ last.args[2] > Len(eng.chunks)
    /\ Len(last.ret) = Len(eng.chunks)

NothingRetrieved(r) == r.raised = None /\ r.ret = <<>>

C8_QueriesLeaveEngine ==
    [][/\ IsQuery(last') => eng' = eng
       /\ (last.op = "retrieve" /\ last'.op = "retrieve" /\ last'.args = last.args)
            => /\ last'.raised = last.raised
               /\ last.raised = None => last'.ret = last.ret]_vars

C8_Witness ==
    /\ last.op = "answer"
    /\ last.raised = "GenerationFailure"
    /\ Len(eng.chunks) > 1
    /\ Consistent(eng)

\* the retrieved texts in order, a blank line between two
RECURSIVE ContextOf(_)
ContextOf(docs) ==
    IF Len(docs) = 1 THEN docs[1].chunk
    ELSE docs[1].chunk \o <<NL, NL>> \o ContextOf(Tail(docs))

OneRequest(call, r) ==
    /\ Len(call.requests) = 1
    /\ call.requests[1].model = eng.model_name
    /\ Len(call.requests[1].messages) = 1
    /\ call.requests[1].messages[1].role = "user"
    /\ call.requests[1].messages[1].content
       = Instructions \o <<NL, NL, "Context:", NL>> \o ContextOf(r.ret)
         \o <<NL, NL, "Question:", SP>> \o call.args[1] \o <<NL, NL, "Answer:">>
    /\ IF call.args[3].ok
       THEN call.raised = None /\ call.ret[2] = r.ret
       ELSE call.raised = "GenerationFailure"

SomethingRetrieved(r) == r.raised = None /\ r.ret # <<>>

AnsweredFrom(call, r) == SomethingRetrieved(r) => OneRequest(call, r)

\* C9: an answer whose retrieval returns results sends one request, of one
\* user message whose context block is the retrieved texts in retrieval
\* order; if the request fails the answer raises that failure, and if it
\* succeeds the evidence returned is the retrieval result.
C9_OneRequestFromRetrieval ==
    last.op = "answer" => AnsweredFrom(last, retrieve(eng, last.args[1], last.args[2]))

C9_Witness ==
    /\ last.op = "answer"
    /\ last.raised = None
    /\ Len(last.requests) = 1
    /\ Len(last.ret[2]) = 2
    /\ last.ret[2][1].chunk # last.ret[2][2].chunk

\* C10: a failed "Build Index" leaves engine, kb_loaded and messages of the
\* session as they were; a successful one stores an engine, sets kb_loaded
\* and clears the messages; and kb_loaded holds only with a stored engine
\* whose index and chunks are consistent.
C10_SessionHoldsBuiltEngine ==
    /\ [](session.kb_loaded => (session.engine # Nil /\ Consistent(session.engine[1])))
    /\ [][last'.op = "build"
            => IF last'.raised # None THEN session' = session
               ELSE /\ session'.kb_loaded
                    /\ session'.messages = <<>>
                    /\ session'.engine # Nil]_vars

C10_Witness ==
    /\ last.op = "build"
    /\ last.raised = "EmptyEmbeddings"
    /\ session.kb_loaded
    /\ session.messages # <<>>

====
